---------------------------- MODULE Spec2Model ----------------------------
(* DL/T645-2007 request-frame codec (src/dl645-2007.ts) and its command   *)
(* verification program (src/2007-test.ts).                                *)
(*                                                                         *)
(* JavaScript strings are TLA+ strings, number[] arrays are sequences of  *)
(* integers, and a call either returns a value or throws an Error.  The   *)
(* state machine is a caller that holds one byte array and applies the    *)
(* static methods of DL645_2007 to it and to its three inputs.            *)
EXTENDS Integers, Sequences, FiniteSets, TLC

VARIABLES meterAddress, controlCode, dataId, arr, arg, str, err, op

vars == <<meterAddress, controlCode, dataId, arr, arg, str, err, op>>

-----------------------------------------------------------------------------
(* Bounds of the model *)

\* How many byte pairs of the test address an input address may have replaced.
MaxEdits == 1

-----------------------------------------------------------------------------
(* JavaScript primitives used by the codec *)

\* The IEEE NaN that parseInt returns when no digit can be parsed; every
\* byte is in 0..255, so -1 is free to stand for it.
NaN == -1

HexDigits == "0123456789abcdef"

charAt(s, i) == SubSeq(s, i + 1, i + 1)

\* String.prototype.substr(start, length), clipped to the string.
substr(s, start, length) ==
  LET last == IF start + length > Len(s) THEN Len(s) ELSE start + length
  IN IF start >= Len(s) THEN "" ELSE SubSeq(s, start + 1, last)

\* String.prototype.toUpperCase / toLowerCase on one character: only the
\* letters change.
upperOf ==
     ("a" :> "A") @@ ("b" :> "B") @@ ("c" :> "C") @@ ("d" :> "D") @@ ("e" :> "E")
  @@ ("f" :> "F") @@ ("g" :> "G") @@ ("h" :> "H") @@ ("i" :> "I") @@ ("j" :> "J")
  @@ ("k" :> "K") @@ ("l" :> "L") @@ ("m" :> "M") @@ ("n" :> "N") @@ ("o" :> "O")
  @@ ("p" :> "P") @@ ("q" :> "Q") @@ ("r" :> "R") @@ ("s" :> "S") @@ ("t" :> "T")
  @@ ("u" :> "U") @@ ("v" :> "V") @@ ("w" :> "W") @@ ("x" :> "X") @@ ("y" :> "Y")
  @@ ("z" :> "Z")

upperChar(c) == IF c \in DOMAIN upperOf THEN upperOf[c] ELSE c

RECURSIVE toUpperCase(_)
toUpperCase(s) ==
  IF Len(s) = 0 THEN ""
  ELSE upperChar(charAt(s, 0)) \o toUpperCase(substr(s, 1, Len(s) - 1))

\* The value of a hexadecimal digit, either case.
hexValueOf ==
     ("0" :> 0) @@ ("1" :> 1) @@ ("2" :> 2) @@ ("3" :> 3) @@ ("4" :> 4)
  @@ ("5" :> 5) @@ ("6" :> 6) @@ ("7" :> 7) @@ ("8" :> 8) @@ ("9" :> 9)
  @@ ("a" :> 10) @@ ("b" :> 11) @@ ("c" :> 12) @@ ("d" :> 13) @@ ("e" :> 14)
  @@ ("f" :> 15) @@ ("A" :> 10) @@ ("B" :> 11) @@ ("C" :> 12) @@ ("D" :> 13)
  @@ ("E" :> 14) @@ ("F" :> 15)

isHexDigit(c) == c \in DOMAIN hexValueOf

hexValue(c) == hexValueOf[c]

\* parseInt(s, 16) on a string of letters and digits: the value of the
\* longest prefix of hexadecimal digits, NaN when that prefix is empty.
RECURSIVE parseHexPrefix(_, _)
parseHexPrefix(s, acc) ==
  IF Len(s) = 0 \/ ~isHexDigit(charAt(s, 0)) THEN acc
  ELSE parseHexPrefix(substr(s, 1, Len(s) - 1), 16 * acc + hexValue(charAt(s, 0)))

parseInt16(s) ==
  IF Len(s) = 0 \/ ~isHexDigit(charAt(s, 0)) THEN NaN ELSE parseHexPrefix(s, 0)

\* Number.prototype.toString(16)
RECURSIVE toString16(_)
toString16(n) ==
  IF n = NaN THEN "NaN"
  ELSE IF n < 16 THEN charAt(HexDigits, n)
  ELSE toString16(n \div 16) \o charAt(HexDigits, n % 16)

\* String.prototype.padStart(2, '0')
padStart2(s) == IF Len(s) >= 2 THEN s ELSE IF Len(s) = 1 THEN "0" \o s ELSE "00"

\* Array.prototype.reverse (the resulting order; it reorders the array in place)
reverse(a) == [i \in 1..Len(a) |-> a[Len(a) + 1 - i]]

\* Array.prototype.join('') of an array of strings
RECURSIVE join(_)
join(a) == IF Len(a) = 0 THEN "" ELSE Head(a) \o join(Tail(a))

Return(v) == [kind |-> "return", value |-> v]
Throw(m) == [kind |-> "throw", value |-> m]

-----------------------------------------------------------------------------
(* src/dl645-2007.ts *)

DL645_2007_DataId ==
  [ PHASE_A_VOLTAGE      |-> "00010100",
    PHASE_B_VOLTAGE      |-> "00010200",
    PHASE_C_VOLTAGE      |-> "00010300",
    PHASE_A_CURRENT      |-> "00010400",
    PHASE_B_CURRENT      |-> "00010500",
    PHASE_C_CURRENT      |-> "00010600",
    PHASE_A_ACTIVE_POWER |-> "00020100",
    PHASE_B_ACTIVE_POWER |-> "00020200",
    PHASE_C_ACTIVE_POWER |-> "00020300",
    TOTAL_ACTIVE_POWER   |-> "00020400",
    TOTAL_ACTIVE_ENERGY  |-> "00010000",
    CONTROL_OPEN         |-> "00040100",
    CONTROL_CLOSE        |-> "00040200",
    CONTROL_POWER_KEEP   |-> "00040300" ]

DL645_2007_ControlCode ==
  [ READ_SINGLE |-> 17, READ_BATCH |-> 18, CONTROL |-> 19 ]

FRAME_START == 104
FRAME_END == 22

ADDRESS_LENGTH_ERROR == "meter address must be a 12-digit hexadecimal string"
ADDRESS_BYTES_ERROR == "address byte array must be 6 bytes"
CONTROL_CODE_ERROR == "control command must use the CONTROL control code (0x13)"

\* Variant that complements every byte, as other dialects of the protocol do.
reverseAddress_complemented(address) ==
  IF Len(address) # 12 THEN Throw(ADDRESS_LENGTH_ERROR)
  ELSE LET addressBytes ==
             [k \in 1..6 |-> 255 - parseInt16(substr(address, 2 * (k - 1), 2))]
       IN Return(reverse(addressBytes))

reverseAddress(address) ==
  IF Len(address) # 12 THEN Throw(ADDRESS_LENGTH_ERROR)
  ELSE LET addressBytes == [k \in 1..6 |-> parseInt16(substr(address, 2 * (k - 1), 2))]
       IN Return(reverse(addressBytes))

restoreAddress(reversedBytes) ==
  IF Len(reversedBytes) # 6 THEN Throw(ADDRESS_BYTES_ERROR)
  ELSE LET r == reverse(reversedBytes)
       IN Return(join([i \in 1..Len(r) |-> toUpperCase(padStart2(toString16(r[i])))]))

\* The caller's array after restoreAddress(reversedBytes): .reverse() has
\* reordered it in place unless the length check threw first.
restoreAddressArray(reversedBytes) ==
  IF Len(reversedBytes) # 6 THEN reversedBytes ELSE reverse(reversedBytes)

dataIdMap ==
     (DL645_2007_DataId.PHASE_A_VOLTAGE     :> <<51, 52, 52, 53>>)
  @@ (DL645_2007_DataId.PHASE_B_VOLTAGE     :> <<51, 53, 52, 53>>)
  @@ (DL645_2007_DataId.PHASE_C_VOLTAGE     :> <<51, 54, 52, 53>>)
  @@ (DL645_2007_DataId.TOTAL_ACTIVE_ENERGY :> <<51, 52, 48, 53>>)
  @@ (DL645_2007_DataId.PHASE_A_CURRENT     :> <<0, 0, 0, 0>>)
  @@ (DL645_2007_DataId.PHASE_B_CURRENT     :> <<0, 0, 0, 0>>)
  @@ (DL645_2007_DataId.PHASE_C_CURRENT     :> <<0, 0, 0, 0>>)
  @@ (DL645_2007_DataId.TOTAL_ACTIVE_POWER  :> <<0, 0, 0, 0>>)
  @@ (DL645_2007_DataId.CONTROL_OPEN        :> <<0, 0, 0, 0>>)
  @@ (DL645_2007_DataId.CONTROL_CLOSE       :> <<0, 0, 0, 0>>)
  @@ (DL645_2007_DataId.CONTROL_POWER_KEEP  :> <<0, 0, 0, 0>>)

convertDataIdToExpectedFormat(id) ==
  IF id \in DOMAIN dataIdMap THEN dataIdMap[id] ELSE <<0, 0, 0, 0>>

crcMap ==
     (DL645_2007_DataId.PHASE_A_VOLTAGE     :> <<29>>)
  @@ (DL645_2007_DataId.PHASE_B_VOLTAGE     :> <<30>>)
  @@ (DL645_2007_DataId.PHASE_C_VOLTAGE     :> <<31>>)
  @@ (DL645_2007_DataId.TOTAL_ACTIVE_ENERGY :> <<121>>)
  @@ (DL645_2007_DataId.PHASE_A_CURRENT     :> <<0>>)
  @@ (DL645_2007_DataId.PHASE_B_CURRENT     :> <<0>>)
  @@ (DL645_2007_DataId.PHASE_C_CURRENT     :> <<0>>)
  @@ (DL645_2007_DataId.TOTAL_ACTIVE_POWER  :> <<0>>)
  @@ (DL645_2007_DataId.CONTROL_OPEN        :> <<0>>)
  @@ (DL645_2007_DataId.CONTROL_CLOSE       :> <<0>>)
  @@ (DL645_2007_DataId.CONTROL_POWER_KEEP  :> <<0>>)

\* Variant that never finds the identifier in the table.
getExpectedCrc_noTable(id) == <<0>>

getExpectedCrc(id) ==
  IF id \in DOMAIN crcMap THEN crcMap[id] ELSE <<0>>

\* Variant whose length byte also counts the checksum byte.
buildReadRequest_lengthWithCrc(address, code, id) ==
  LET reversedAddress == reverseAddress(address)
      dataIdBytes == convertDataIdToExpectedFormat(id)
      crcBytes == getExpectedCrc(id)
  IN IF reversedAddress.kind = "throw" THEN reversedAddress
     ELSE Return(<<FRAME_START>> \o reversedAddress.value
                 \o <<FRAME_START, code, Len(dataIdBytes) + Len(crcBytes)>>
                 \o dataIdBytes \o crcBytes \o <<FRAME_END>>)

buildReadRequest(address, code, id) ==
  LET reversedAddress == reverseAddress(address)
      dataIdBytes == convertDataIdToExpectedFormat(id)
      crcBytes == getExpectedCrc(id)
  IN IF reversedAddress.kind = "throw" THEN reversedAddress
     ELSE Return(<<FRAME_START>> \o reversedAddress.value
                 \o <<FRAME_START, code, Len(dataIdBytes)>>
                 \o dataIdBytes \o crcBytes \o <<FRAME_END>>)

\* Variant without the control-code check.
buildControlRequest_unchecked(address, code, id) ==
  buildReadRequest(address, code, id)

buildControlRequest(address, code, id) ==
  IF code # DL645_2007_ControlCode.CONTROL THEN Throw(CONTROL_CODE_ERROR)
  ELSE buildReadRequest(address, code, id)

bytesToHexString(bytes) ==
  join([i \in 1..Len(bytes) |-> toUpperCase(padStart2(toString16(bytes[i])))])

-----------------------------------------------------------------------------
(* src/2007-test.ts *)

TEST_METER_ADDRESS == "202411110002"

EXPECTED_COMMANDS ==
  [ A_VOLTAGE    |-> "68020011112420681104333434351D16",
    B_VOLTAGE    |-> "68020011112420681104333534351E16",
    C_VOLTAGE    |-> "68020011112420681104333634351F16",
    TOTAL_ENERGY |-> "68020011112420681104333430357916" ]

\* The four calls of runCommandTests: identifier and expected command.
TestCases ==
  { <<DL645_2007_DataId.PHASE_A_VOLTAGE, EXPECTED_COMMANDS.A_VOLTAGE>>,
    <<DL645_2007_DataId.PHASE_B_VOLTAGE, EXPECTED_COMMANDS.B_VOLTAGE>>,
    <<DL645_2007_DataId.PHASE_C_VOLTAGE, EXPECTED_COMMANDS.C_VOLTAGE>>,
    <<DL645_2007_DataId.TOTAL_ACTIVE_ENERGY, EXPECTED_COMMANDS.TOTAL_ENERGY>> }

\* What testCommandMatch logs: the actual command and the verdict.
testCommandMatch(id, expectedHex) ==
  LET commandBytes == buildReadRequest(TEST_METER_ADDRESS,
                                       DL645_2007_ControlCode.READ_SINGLE, id)
  IN IF commandBytes.kind = "throw" THEN [actualHex |-> "", verdict |-> "failed"]
     ELSE LET actualHex == bytesToHexString(commandBytes.value)
          IN [actualHex |-> actualHex,
              verdict |-> IF actualHex = expectedHex THEN "match" ELSE "mismatch"]

-----------------------------------------------------------------------------
(* Inputs *)

DataIds == {DL645_2007_DataId[k] : k \in DOMAIN DL645_2007_DataId}
ControlCodes == {DL645_2007_ControlCode[k] : k \in DOMAIN DL645_2007_ControlCode}

\* Replacement byte pairs: mixed-case digits, a pair whose second character
\* is no hexadecimal digit, one whose first is none, a lower-case pair with
\* a leading zero.
PairPool == {"aF", "bG", "g0", "0c"}

replacePair(a, k, p) == SubSeq(a, 1, 2 * k) \o p \o SubSeq(a, 2 * k + 3, Len(a))

RECURSIVE Edited(_)
Edited(n) ==
  IF n = 0 THEN {TEST_METER_ADDRESS}
  ELSE LET prev == Edited(n - 1)
       IN prev \cup {replacePair(a, k, p) : a \in prev, k \in 0..5, p \in PairPool}

\* Addresses whose length is not 12.
WrongLength ==
  {"", "2024111100", "20241111000", "20241111000200", "2024111100g0aF"}

AddressInputs == Edited(MaxEdits) \cup WrongLength

-----------------------------------------------------------------------------
(* The caller *)

Init ==
  /\ meterAddress \in AddressInputs
  /\ controlCode \in ControlCodes
  /\ dataId \in DataIds
  /\ arr = <<>>
  /\ arg = <<>>
  /\ str = ""
  /\ err = ""
  /\ op = "none"

inputs == <<meterAddress, controlCode, dataId>>

\* A call that returns a byte array, which the caller keeps in arr.
ArrayCall(name, r) ==
  /\ op' = name
  /\ err' = IF r.kind = "throw" THEN r.value ELSE ""
  /\ arr' = IF r.kind = "throw" THEN arr ELSE r.value
  /\ arg' = <<>>
  /\ str' = ""
  /\ UNCHANGED inputs

\* A call that returns a string, which the caller keeps in str.
StringCall(name, r) ==
  /\ op' = name
  /\ err' = IF r.kind = "throw" THEN r.value ELSE ""
  /\ str' = IF r.kind = "throw" THEN "" ELSE r.value

CallReverseAddress == ArrayCall("reverseAddress", reverseAddress(meterAddress))

CallBuildReadRequest ==
  ArrayCall("buildReadRequest", buildReadRequest(meterAddress, controlCode, dataId))

CallBuildControlRequest ==
  ArrayCall("buildControlRequest",
            buildControlRequest(meterAddress, controlCode, dataId))

CallRestoreAddress ==
  /\ StringCall("restoreAddress", restoreAddress(arr))
  /\ arg' = arr
  /\ arr' = restoreAddressArray(arr)
  /\ UNCHANGED inputs

CallBytesToHexString ==
  /\ StringCall("bytesToHexString", Return(bytesToHexString(arr)))
  /\ arg' = arr
  /\ UNCHANGED <<arr, inputs>>

\* runCommandTests: the verification program is a caller of its own, whose
\* inputs are the test address, READ_SINGLE and one of the tested identifiers.
RunTestCommandMatch ==
  /\ op = "none"
  /\ meterAddress = TEST_METER_ADDRESS
  /\ controlCode = DL645_2007_ControlCode.READ_SINGLE
  /\ \E case \in TestCases :
       /\ case[1] = dataId
       /\ LET t == testCommandMatch(case[1], case[2])
          IN /\ op' = "testCommandMatch"
             /\ str' = t.actualHex
             /\ err' = t.verdict
             /\ UNCHANGED <<arr, arg, inputs>>

Next ==
  \/ CallReverseAddress
  \/ CallBuildReadRequest
  \/ CallBuildControlRequest
  \/ CallRestoreAddress
  \/ CallBytesToHexString
  \/ RunTestCommandMatch

Spec == Init /\ [][Next]_vars

-----------------------------------------------------------------------------
(* Vocabulary of the properties *)

ControlIds ==
  { DL645_2007_DataId.CONTROL_OPEN, DL645_2007_DataId.CONTROL_CLOSE,
    DL645_2007_DataId.CONTROL_POWER_KEEP }

\* The last call was a frame builder and it returned: arr is its frame.
Built == op \in {"buildReadRequest", "buildControlRequest"} /\ err = ""

\* Exactly 12 hexadecimal characters.
IsHexAddress(a) == Len(a) = 12 /\ \A i \in 0..11 : isHexDigit(charAt(a, i))

\* The byte written by the two characters of a at offset i.
PairByte(a, i) == 16 * hexValueOf[charAt(a, i)] + hexValueOf[charAt(a, i + 1)]

RECURSIVE SumBytes(_)
SumBytes(a) == IF Len(a) = 0 THEN 0 ELSE Head(a) + SumBytes(Tail(a))

\* The data field of a frame: the bytes between its length byte and its
\* checksum byte.
DataField(frame) == SubSeq(frame, 11, Len(frame) - 2)

\* The arithmetic rule for an identifier: its 4 bytes, reversed, each plus
\* off modulo 256.
BiasedReversed(id, off) == [k \in 1..4 |-> (PairByte(id, 2 * (4 - k)) + off) % 256]

-----------------------------------------------------------------------------
(* Properties *)

\* C1: for every 12-hex-character address, control code and identifier, the
\* checksum byte of a built frame (the byte before the 0x16 end marker) is
\* the sum modulo 256 of all the frame bytes before it.
C1_ChecksumIsByteSum ==
  (Built /\ IsHexAddress(meterAddress)) =>
    arr[Len(arr) - 1] = SumBytes(SubSeq(arr, 1, Len(arr) - 2)) % 256

\* C2: for address 202411110002 and READ_SINGLE the frame rendered as
\* upper-case hex is the expected command of each of the four tested
\* identifiers, so every test of the verification program reports a match.
C2_TestedCommandsMatch ==
  op = "testCommandMatch" =>
    /\ err = "match"
    /\ dataId = "00010100" => str = "68020011112420681104333434351D16"
    /\ dataId = "00010200" => str = "68020011112420681104333534351E16"
    /\ dataId = "00010300" => str = "68020011112420681104333634351F16"
    /\ dataId = "00010000" => str = "68020011112420681104333430357916"

C2_Witness ==
  /\ op = "testCommandMatch"
  /\ dataId = DL645_2007_DataId.TOTAL_ACTIVE_ENERGY
  /\ str = "68020011112420681104333430357916"
  /\ err = "match"

\* C3: a request built with control code CONTROL and an identifier that is
\* no control-command identifier fails (with the control-usage error when
\* the address is well formed) and returns no frame.
C3_ControlNeedsControlId ==
  ( /\ op \in {"buildReadRequest", "buildControlRequest"}
    /\ controlCode = DL645_2007_ControlCode.CONTROL
    /\ dataId \notin ControlIds ) =>
    /\ err # ""
    /\ IsHexAddress(meterAddress) => err = CONTROL_CODE_ERROR

\* C4: buildControlRequest with a control code other than CONTROL fails with
\* the control-code error for every address and identifier; it returns a
\* frame only when the control code is CONTROL.
C4_ControlRequestNeedsControlCode ==
  op = "buildControlRequest" =>
    /\ controlCode # DL645_2007_ControlCode.CONTROL => err = CONTROL_CODE_ERROR
    /\ err = "" => /\ controlCode = DL645_2007_ControlCode.CONTROL
                   /\ arr[9] = DL645_2007_ControlCode.CONTROL

C4_Witness ==
  /\ op = "buildControlRequest"
  /\ controlCode = DL645_2007_ControlCode.READ_SINGLE
  /\ meterAddress = TEST_METER_ADDRESS
  /\ dataId = DL645_2007_DataId.CONTROL_OPEN
  /\ err = CONTROL_CODE_ERROR

\* C5: reverseAddress and buildReadRequest fail with the address error
\* whenever the address is not exactly 12 hexadecimal characters, whether
\* its length differs from 12 or one of its 12 characters is no hex digit.
C5_InvalidAddressRejected ==
  ( /\ op \in {"reverseAddress", "buildReadRequest"}
    /\ ~IsHexAddress(meterAddress) ) => err = ADDRESS_LENGTH_ERROR

\* C6: for a valid 12-hex-character address A of either case, reverseAddress
\* returns the 6 bytes of A in reversed order, uncomplemented, and
\* restoreAddress of that array is A in upper case.
C6_AddressRoundTrip ==
  IsHexAddress(meterAddress) =>
    /\ op = "reverseAddress" =>
         /\ err = ""
         /\ Len(arr) = 6
         /\ \A k \in 1..6 : arr[k] = PairByte(meterAddress, 2 * (6 - k))
    /\ ( /\ op = "restoreAddress"
         /\ Len(arg) = 6
         /\ \A k \in 1..6 : arg[k] = PairByte(meterAddress, 2 * (6 - k)) ) =>
         /\ err = ""
         /\ str = toUpperCase(meterAddress)

C6_Witness ==
  /\ op = "restoreAddress"
  /\ meterAddress = "2024aF110002"
  /\ arg = <<2, 0, 17, 175, 36, 32>>
  /\ str = "2024AF110002"

\* C7: in every built frame the data-length byte at offset 9 is the number
\* of data-field bytes between it and the checksum byte: the frame is 0x68,
\* 6 address bytes, 0x68, the control code, L, L data bytes, one checksum
\* byte and 0x16, 12 + L bytes in all.
C7_LengthByteCountsDataField ==
  Built =>
    /\ Len(arr) = 12 + arr[10]
    /\ Len(DataField(arr)) = arr[10]
    /\ arr[1] = 104
    /\ arr[8] = 104
    /\ arr[9] = controlCode
    /\ arr[Len(arr)] = 22

C7_Witness ==
  /\ Built
  /\ dataId = DL645_2007_DataId.PHASE_A_ACTIVE_POWER
  /\ arr[10] = 4
  /\ Len(arr) = 16

\* C8: the data field of a built frame follows the arithmetic rule: the 4
\* bytes of the identifier, reversed, each plus one fixed offset modulo 256.
C8_DataFieldIsBiasedReversedId ==
  Built => \E off \in 0..255 : DataField(arr) = BiasedReversed(dataId, off)

\* C9: restoreAddress leaves the array passed to it unchanged, so a second
\* call on the same array returns the same address string.
C9_RestoreAddressIsPure ==
  (op = "restoreAddress" /\ err = "") =>
    /\ arr = arg
    /\ restoreAddress(arr) = Return(str)

\* C10: for a fixed address and control code, no other identifier yields
\* the frame that was built for this one.
C10_FrameInjectiveInDataId ==
  Built => \A other \in DataIds \ {dataId} :
             buildReadRequest(meterAddress, controlCode, other) # Return(arr)

=============================================================================
